---- MODULE Spec2Model ----
(***************************************************************************)
(* Pipeline orchestration core of the podcast agent: the episode registry, *)
(* the job ledger and the three stage invocations (download,               *)
(* transcription, summarization), each running its per-episode tasks under *)
(* a bounded pool and committing through one database session.             *)
(***************************************************************************)
EXTENDS Naturals, Integers, FiniteSets, Sequences, TLC

\* ------------------------------------------------------------------ bounds
MaxEpisodes == 4
MaxInvocations == 3
MaxFaults == 1
MaxDigestRows == 2
MaxSubscribers == 2
MaxScripts == 1
MaxEntries == 2
MaxRaceItems == 1
MaxDirectCalls == 3

\* --------------------------------------------------------- program constants
max_concurrent_downloads == 3
max_concurrent_transcriptions == 2
max_concurrent_summaries == 2
TranscriptionQueryLimit == 3
digest_window_hours == 25

Null == "null"
EpisodeIds == 1..MaxEpisodes
Stages == {"download", "transcription", "summarization"}

VARIABLES
    episodes,    \* the episodes table as the session sees it: id -> row
    jobs,        \* the processing_jobs table: a set of rows
    summaries,   \* the summaries table: the episode ids that own a row
    stage,       \* the stage invocation in progress, or "idle"
    snapshot,    \* the episodes the invocation's query returned
    task,        \* per episode: "none", "waiting", "running" or "done"
    outcome,     \* per episode: what its executor did in this invocation
    results,     \* per episode: the value its task returned to gather
    calls,       \* per episode: how often this invocation entered its per-item routine
    eligibleAt,  \* the episodes that satisfied the stage's filter at query time
    invNo,       \* number of stage invocations started so far
    faults,      \* number of executor or file-system failures injected so far
    result,      \* what the most recent invocation returned
    atReturn,    \* the episodes table as that invocation left it
    durable,     \* the three tables as of the last commit
    pc,          \* where run_pipeline stands, or "idle" outside a run
    cfg,         \* the mail settings: email_enabled, recipient_email, subscriber_emails
    clock,       \* what datetime.utcnow() returns, in seconds
    dg,          \* the digest call: its position, selection, recipients and sends
    digest_logs, \* the digest_logs table
    fetched,     \* the most recent fetch_podcast_feeds call: its feeds and what it saved
    sessions,    \* per concurrent run: its stage, its batch and what its session holds
    disk,        \* the artifact files on disk, where a specification follows them
    called       \* the most recent direct call of a per-item operation

\* The variables of the stage invocations, and those of the other components.
core == <<episodes, jobs, summaries, stage, snapshot, task, outcome, results,
          calls, eligibleAt, invNo, faults, result, atReturn, durable>>
aux == <<pc, cfg, clock, dg, digest_logs, fetched, sessions, disk, called>>
digestVars == <<cfg, clock, dg, digest_logs>>
directVars == <<disk, called>>
otherVars == <<fetched, sessions, directVars>>
vars == <<core, aux>>

\* ------------------------------------------------------------ the registry
\* A nullable DateTime column holds << >> for NULL or <<t>> for the time t,
\* counted in seconds.
NullTime == << >>

\* A row as Episode(**episode_data) inserts it: column defaults only.
NewEpisode ==
    [ audio_file_path |-> Null, downloaded |-> FALSE,
      transcript_file_path |-> Null, transcribed |-> FALSE,
      summary_file_path |-> Null, summarized |-> FALSE,
      download_completed_at |-> NullTime,
      transcription_completed_at |-> NullTime,
      summarization_completed_at |-> NullTime,
      processing_error |-> Null, retry_count |-> 0 ]

Known == DOMAIN episodes

\* Mutant of TranscriptionFilter: the transcript-is-null condition is lost.
TranscriptionFilterAudioOnly(e) == e.audio_file_path # Null

\* Mutant of SummarizationFilter: the audio is taken for the predecessor.
SummarizationFilterFromAudio(e) ==
    e.audio_file_path # Null /\ e.summary_file_path = Null

\* Mutant of DownloadFilter: an episode that failed before is left out.
DownloadFilterSkipsRetried(e) ==
    e.audio_file_path = Null /\ e.downloaded = FALSE /\ e.retry_count = 0

\* Mutant of DownloadFilter: an episode with a recorded error is left out.
DownloadFilterSkipsErrored(e) ==
    e.audio_file_path = Null /\ e.downloaded = FALSE /\ e.processing_error = Null

\* The filter of each stage's pending query.
DownloadFilter(e) == e.audio_file_path = Null /\ e.downloaded = FALSE
TranscriptionFilter(e) == e.audio_file_path # Null /\ e.transcript_file_path = Null
SummarizationFilter(e) == e.transcript_file_path # Null /\ e.summary_file_path = Null

Eligible(s) ==
    { i \in Known :
        CASE s = "download" -> DownloadFilter(episodes[i])
          [] s = "transcription" -> TranscriptionFilter(episodes[i])
          [] s = "summarization" -> SummarizationFilter(episodes[i]) }

Min(a, b) == IF a <= b THEN a ELSE b

\* Mutant of QueryResults: every stage's query carries the limit.
QueryResultsLimitEverywhere(s) ==
    { q \in SUBSET Eligible(s) :
        Cardinality(q) = Min(TranscriptionQueryLimit, Cardinality(Eligible(s))) }

\* The row sets a pending query may return. Only the transcription query
\* carries .limit(3); it has no ORDER BY, so which rows it keeps is the
\* database's choice.
QueryResults(s) ==
    IF s = "transcription"
    THEN { q \in SUBSET Eligible(s) :
             Cardinality(q) = Min(TranscriptionQueryLimit, Cardinality(Eligible(s))) }
    ELSE { Eligible(s) }

\* The pool bound of each stage.
Limit(s) ==
    CASE s = "download" -> max_concurrent_downloads
      [] s = "transcription" -> max_concurrent_transcriptions
      [] s = "summarization" -> max_concurrent_summaries

\* No fetch call has been made, and no concurrent run has a session open.
NoFetch ==
    [ pc |-> "idle", podcast |-> 0, parsed |-> 0, new_episodes |-> << >>,
      saved |-> << >>, raised |-> {}, skipped |-> {} ]
\* The processes that may each call run_pipeline on the one database, and a
\* process that has not called it: no position, no session.
Runs == 1..2
NoRun ==
    [ pos |-> "none", stage |-> "idle", snapshot |-> {}, task |-> << >>,
      loaded |-> << >>, rows |-> << >>, added |-> {}, ledger |-> {},
      error |-> FALSE ]
NoSessions == [ r \in Runs |-> NoRun ]

\* No per-item operation has been called directly.
NoCall == [ episode |-> 0, type |-> "none", ret |-> FALSE ]

\* No digest call has been made.
NoDigest ==
    [ pc |-> "idle", entry |-> "none", selected |-> {}, subscribers |-> << >>,
      idx |-> 0, success_count |-> 0, attempts |-> << >>, ret |-> "none" ]

InFlight == { i \in EpisodeIds : task[i] = "running" }

Init ==
    /\ episodes = << >>
    /\ jobs = {}
    /\ summaries = {}
    /\ stage = "idle"
    /\ snapshot = {}
    /\ task = [i \in EpisodeIds |-> "none"]
    /\ outcome = [i \in EpisodeIds |-> "none"]
    /\ results = [i \in EpisodeIds |-> FALSE]
    /\ calls = [i \in EpisodeIds |-> 0]
    /\ eligibleAt = {}
    /\ invNo = 0
    /\ faults = 0
    /\ result = [stage |-> "none", eligible |-> 0, attempted |-> 0,
                 succeeded |-> 0, failed |-> 0]
    /\ atReturn = << >>
    /\ durable = [episodes |-> << >>, jobs |-> {}, summaries |-> {}]
    /\ pc = "idle"
    /\ cfg = [email_enabled |-> FALSE, recipient_email |-> "", subscriber_emails |-> << >>]
    /\ clock = 0
    /\ dg = NoDigest
    /\ digest_logs = {}
    /\ fetched = NoFetch
    /\ sessions = NoSessions
    /\ disk = {}
    /\ called = NoCall

\* session.commit(): what the session holds becomes the stored tables.
Committed(eps, js, sums) == [episodes |-> eps, jobs |-> js, summaries |-> sums]

\* --------------------------------------------------------------- acquisition
\* fetch_podcast_feeds: the feeds yield k entries with unknown guids, which
\* save_episodes inserts under the next primary keys.
FetchFeeds ==
    /\ stage = "idle"
    /\ \E k \in 1..MaxEpisodes :
        /\ Len(episodes) + k <= MaxEpisodes
        /\ episodes' = episodes \o [j \in 1..k |-> NewEpisode]
    /\ durable' = Committed(episodes', jobs, summaries)
    /\ UNCHANGED <<jobs, summaries, stage, snapshot, task, outcome, results,
                   calls, eligibleAt, invNo, faults, result, atReturn>>

\* ------------------------------------------------------- stage invocations
NoTasks == [i \in EpisodeIds |-> "none"]
NoOutcomes == [i \in EpisodeIds |-> "none"]
NoResults == [i \in EpisodeIds |-> FALSE]
NoCalls == [i \in EpisodeIds |-> 0]

\* Mutant of StageResult: failed is counted against the eligible episodes
\* instead of the gathered results.
StageResultFailedFromEligible(s, eligible, eps, res) ==
    LET successful == Cardinality({ i \in eps : res[i] = TRUE })
    IN  [ stage |-> s, eligible |-> Cardinality(eligible),
          attempted |-> Cardinality(eps),
          succeeded |-> successful,
          failed |-> Cardinality(eligible) - successful ]

\* The dictionary a stage invocation returns, from the gathered results:
\* successful = sum(1 for r in results if r is True), failed = the rest.
StageResult(s, eligible, eps, res) ==
    LET successful == Cardinality({ i \in eps : res[i] = TRUE })
    IN  [ stage |-> s, eligible |-> Cardinality(eligible),
          attempted |-> Cardinality(eps),
          succeeded |-> successful,
          failed |-> Cardinality(eps) - successful ]

\* Mutant of EmptyResult: an empty query is reported as one failure.
EmptyResultAsFailure(s) ==
    [ stage |-> s, eligible |-> Cardinality(Eligible(s)),
      attempted |-> 0, succeeded |-> 0, failed |-> 1 ]

\* The early return on an empty query: both counts zero.
EmptyResult(s) ==
    [ stage |-> s, eligible |-> Cardinality(Eligible(s)),
      attempted |-> 0, succeeded |-> 0, failed |-> 0 ]

\* The head of download_pending_episodes / process_pending_episodes: open
\* the session, run the pending query, return zeros when it is empty,
\* otherwise create one task per returned episode.
StartStage(s) ==
    /\ stage = "idle"
    /\ invNo < MaxInvocations
    /\ invNo' = invNo + 1
    /\ \E q \in QueryResults(s) :
         IF q = {}
         THEN /\ result' = EmptyResult(s)
              /\ atReturn' = episodes
              /\ durable' = Committed(episodes, jobs, summaries)
              /\ UNCHANGED <<stage, snapshot, task, eligibleAt>>
         ELSE /\ stage' = s
              /\ snapshot' = q
              /\ eligibleAt' = Eligible(s)
              /\ task' = [i \in EpisodeIds |-> IF i \in q THEN "waiting" ELSE "none"]
              /\ UNCHANGED <<result, atReturn, durable>>
    /\ outcome' = NoOutcomes
    /\ results' = NoResults
    /\ calls' = NoCalls
    /\ UNCHANGED <<episodes, jobs, summaries, faults>>

\* Mutant of SlotFree: after a failure in the batch nothing more is started.
SlotFreeUntilFailure(s) ==
    /\ Cardinality(InFlight) < Limit(s)
    /\ \A i \in snapshot : outcome[i] \notin {"failed", "raised", "save_raised", "no_input"}

\* Mutant of SlotFree: the bound is tested off by one.
SlotFreeOffByOne(s) == Cardinality(InFlight) <= Limit(s)

\* A slot of the stage's pool is free: the semaphore of the downloader has a
\* permit left, or the thread pool of a worker has an idle thread.
SlotFree(s) == Cardinality(InFlight) < Limit(s)

\* The environment may fail at most MaxFaults times in one exploration.
MayFail(failing) == failing => faults < MaxFaults
Count(failing) == IF failing THEN faults + 1 ELSE faults

\* ----------------------------------------------------------------- download
\* Mutant of DownloadSucceeded: the flag assignment is lost.
DownloadSucceededNoFlag(e) ==
    [e EXCEPT !.audio_file_path = "audio", !.processing_error = Null]

\* The success branch of _download_episode.
DownloadSucceeded(e) ==
    [e EXCEPT !.audio_file_path = "audio", !.downloaded = TRUE,
              !.processing_error = Null]

\* The two failure branches of _download_episode: _download_file returned
\* False ("Download failed"), or something in the try block raised (str(e)).
DownloadFailed(e, msg) ==
    [e EXCEPT !.processing_error = msg, !.retry_count = @ + 1]

\* _download_episode_with_semaphore enters the semaphore and starts
\* _download_episode, which suspends in the transport.
DownloadBegin(i) ==
    /\ stage = "download"
    /\ task[i] = "waiting"
    /\ SlotFree(stage)
    /\ task' = [task EXCEPT ![i] = "running"]
    /\ calls' = [calls EXCEPT ![i] = @ + 1]
    /\ UNCHANGED <<episodes, jobs, summaries, stage, snapshot, outcome, results,
                   eligibleAt, invNo, faults, result, atReturn, durable>>

\* The transport answers and _download_episode finishes: "ok" (file
\* written), "failed" (_download_file returned False) or "raised".
DownloadEnd(i) ==
    /\ stage = "download"
    /\ task[i] = "running"
    /\ \E o \in {"ok", "failed", "raised"} :
        /\ MayFail(o # "ok")
        /\ faults' = Count(o # "ok")
        /\ outcome' = [outcome EXCEPT ![i] = o]
        /\ episodes' = [episodes EXCEPT ![i] =
               CASE o = "ok" -> DownloadSucceeded(@)
                 [] o = "failed" -> DownloadFailed(@, "Download failed")
                 [] o = "raised" -> DownloadFailed(@, "exception")]
        /\ results' = [results EXCEPT ![i] = (o = "ok")]
    /\ task' = [task EXCEPT ![i] = "done"]
    /\ UNCHANGED <<jobs, summaries, stage, snapshot, calls, eligibleAt, invNo, result, atReturn, durable>>

\* ------------------------------------------------------------------ ledger
\* The row process_episode adds before it calls the executor. The primary
\* key is stood for by the invocation number together with the episode.
NewJob(i, type) ==
    [ episode_id |-> i, job_type |-> type, status |-> "processing", attempt |-> invNo ]

\* Mutant of FinishJob: the row keeps the status it was created with.
FinishJobLeavesProcessing(i, type, status) == jobs

\* job.status = "completed" / "failed" on the row of this attempt.
FinishJob(i, type, status) ==
    (jobs \ {NewJob(i, type)}) \cup {[NewJob(i, type) EXCEPT !.status = status]}

\* Mutant of Precheck: the already-done check is lost.
PrecheckWithoutAlready(inputPath, inputOnDisk, outputPath, outputOnDisk) ==
    IF inputPath = Null \/ ~inputOnDisk THEN "no_input" ELSE "go"

\* The two checks that open process_episode: the input artifact must be
\* recorded and on disk (else return False), and an output artifact that
\* is recorded and on disk means there is nothing to do (return True).
Precheck(inputPath, inputOnDisk, outputPath, outputOnDisk) ==
    IF inputPath = Null \/ ~inputOnDisk THEN "no_input"
    ELSE IF outputPath # Null /\ outputOnDisk THEN "already"
    ELSE "go"

\* ------------------------------------------------------------ transcription
\* transcribe_audio: when the speech model raises, the except branch logs
\* and returns a placeholder transcript of zero words, so process_episode
\* gets an ordinary return value either way.
transcribe_audio(modelRaised) ==
    IF modelRaised
    THEN [ raises |-> FALSE, full_transcript |-> "[Transcription failed]", word_count |-> 0 ]
    ELSE [ raises |-> FALSE, full_transcript |-> "text", word_count |-> 1 ]

\* Mutant of TranscriptionSucceeded: the path assignment is lost.
TranscriptionSucceededNoPath(e) == e

\* Mutant of TranscriptionSucceeded: the path lands in the summary column.
TranscriptionSucceededWritesSummary(e) ==
    [e EXCEPT !.summary_file_path = "transcript"]

\* The "Update episode" block of TranscriptionWorker.process_episode.
TranscriptionSucceeded(e) ==
    [e EXCEPT !.transcript_file_path = "transcript"]

\* A pool thread takes the task and runs process_episode up to the
\* executor call: the two file checks, then the ledger row.
TranscribeBegin(i) ==
    /\ stage = "transcription"
    /\ task[i] = "waiting"
    /\ SlotFree(stage)
    /\ calls' = [calls EXCEPT ![i] = @ + 1]
    /\ \E audioOnDisk \in BOOLEAN, transcriptOnDisk \in BOOLEAN :
         LET check == Precheck(episodes[i].audio_file_path, audioOnDisk,
                               episodes[i].transcript_file_path, transcriptOnDisk)
         IN  /\ MayFail(check = "no_input")
             /\ faults' = Count(check = "no_input")
             /\ task' = [task EXCEPT ![i] = IF check = "go" THEN "running" ELSE "done"]
             /\ outcome' = [outcome EXCEPT ![i] = IF check = "go" THEN @ ELSE check]
             /\ results' = [results EXCEPT ![i] = (check = "already")]
             /\ jobs' = IF check = "go" THEN jobs \cup {NewJob(i, "transcription")} ELSE jobs
    /\ UNCHANGED <<episodes, summaries, stage, snapshot, eligibleAt, invNo, result, atReturn, durable>>

\* The inner try of process_episode: transcribe_audio (whose model call may
\* raise), then save_transcript (which may raise), then the updates.
TranscribeEnd(i) ==
    /\ stage = "transcription"
    /\ task[i] = "running"
    /\ \E modelRaised \in BOOLEAN, saveRaised \in BOOLEAN :
         LET ok == ~transcribe_audio(modelRaised).raises /\ ~saveRaised
         IN  /\ MayFail(modelRaised \/ saveRaised)
             /\ faults' = Count(modelRaised \/ saveRaised)
             /\ outcome' = [outcome EXCEPT ![i] =
                    IF modelRaised THEN "raised"
                    ELSE IF saveRaised THEN "save_raised" ELSE "ok"]
             /\ episodes' = [episodes EXCEPT ![i] =
                    IF ok THEN TranscriptionSucceeded(@) ELSE @]
             /\ jobs' = FinishJob(i, "transcription",
                                  IF ok THEN "completed" ELSE "failed")
             /\ results' = [results EXCEPT ![i] = ok]
    /\ task' = [task EXCEPT ![i] = "done"]
    /\ UNCHANGED <<summaries, stage, snapshot, calls, eligibleAt, invNo, result, atReturn, durable>>

\* ------------------------------------------------------------ summarization
\* Mutant of SummarizationSucceeded: the transcript reference is dropped.
SummarizationSucceededDropsTranscript(e) ==
    [e EXCEPT !.summary_file_path = "summary", !.summarized = TRUE,
              !.transcript_file_path = Null]

\* The "Update episode" block of SummarizationWorker.process_episode.
SummarizationSucceeded(e) ==
    [e EXCEPT !.summary_file_path = "summary", !.summarized = TRUE]

\* A pool thread takes the task and runs process_episode up to the
\* executor call: the two file checks, then the ledger row.
SummarizeBegin(i) ==
    /\ stage = "summarization"
    /\ task[i] = "waiting"
    /\ SlotFree(stage)
    /\ calls' = [calls EXCEPT ![i] = @ + 1]
    /\ \E transcriptOnDisk \in BOOLEAN, summaryOnDisk \in BOOLEAN :
         LET check == Precheck(episodes[i].transcript_file_path, transcriptOnDisk,
                               episodes[i].summary_file_path, summaryOnDisk)
         IN  /\ MayFail(check = "no_input")
             /\ faults' = Count(check = "no_input")
             /\ task' = [task EXCEPT ![i] = IF check = "go" THEN "running" ELSE "done"]
             /\ outcome' = [outcome EXCEPT ![i] = IF check = "go" THEN @ ELSE check]
             /\ results' = [results EXCEPT ![i] = (check = "already")]
             /\ jobs' = IF check = "go" THEN jobs \cup {NewJob(i, "summarization")} ELSE jobs
    /\ UNCHANGED <<episodes, summaries, stage, snapshot, eligibleAt, invNo, result, atReturn, durable>>

\* The inner try of process_episode: _load_transcript, _generate_summary
\* and _save_summary each re-raise, so any of them raising lands in the
\* except branch; otherwise the Summary row and the updates.
SummarizeEnd(i) ==
    /\ stage = "summarization"
    /\ task[i] = "running"
    /\ \E raised \in BOOLEAN :
         /\ MayFail(raised)
         /\ faults' = Count(raised)
         /\ outcome' = [outcome EXCEPT ![i] = IF raised THEN "raised" ELSE "ok"]
         /\ episodes' = [episodes EXCEPT ![i] =
                IF raised THEN @ ELSE SummarizationSucceeded(@)]
         /\ summaries' = IF raised THEN summaries ELSE summaries \cup {i}
         /\ jobs' = FinishJob(i, "summarization",
                              IF raised THEN "failed" ELSE "completed")
         /\ results' = [results EXCEPT ![i] = ~raised]
    /\ task' = [task EXCEPT ![i] = "done"]
    /\ UNCHANGED <<stage, snapshot, calls, eligibleAt, invNo, result, atReturn, durable>>

\* ------------------------------------------------------------------- return
\* asyncio.gather has every result: count them, return the dictionary, and
\* leave the session block, which commits.
ReturnStage ==
    /\ stage # "idle"
    /\ \A i \in snapshot : task[i] = "done"
    /\ result' = StageResult(stage, eligibleAt, snapshot, results)
    /\ atReturn' = episodes
    /\ durable' = Committed(episodes, jobs, summaries)
    /\ stage' = "idle"
    /\ snapshot' = {}
    /\ eligibleAt' = {}
    /\ task' = NoTasks
    /\ outcome' = NoOutcomes
    /\ results' = NoResults
    /\ calls' = NoCalls
    /\ UNCHANGED <<episodes, jobs, summaries, invNo, faults>>

\* The stages invoked one by one in any order, as the stage scripts and the
\* agent's per-stage methods allow.
Next ==
    \/ FetchFeeds /\ UNCHANGED aux
    \/ \E s \in Stages : StartStage(s) /\ UNCHANGED aux
    \/ \E i \in EpisodeIds : DownloadBegin(i) /\ UNCHANGED aux
    \/ \E i \in EpisodeIds : DownloadEnd(i) /\ UNCHANGED aux
    \/ \E i \in EpisodeIds : TranscribeBegin(i) /\ UNCHANGED aux
    \/ \E i \in EpisodeIds : TranscribeEnd(i) /\ UNCHANGED aux
    \/ \E i \in EpisodeIds : SummarizeBegin(i) /\ UNCHANGED aux
    \/ \E i \in EpisodeIds : SummarizeEnd(i) /\ UNCHANGED aux
    \/ ReturnStage /\ UNCHANGED aux

Spec == Init /\ [][Next]_vars

\* ---------------------------------------------------------------- pipeline
\* Mutant of StageAfter: summarization follows download directly.
StageAfterSkipsTranscription(p) ==
    CASE p = "fetch" -> "download"
      [] p = "download" -> "summarization"
      [] p = "transcription" -> "summarization"
      [] p = "summarization" -> "idle"

\* run_pipeline awaits its four steps one after the other and returns.
StageAfter(p) ==
    CASE p = "fetch" -> "download"
      [] p = "download" -> "transcription"
      [] p = "transcription" -> "summarization"
      [] p = "summarization" -> "idle"

\* run_pipeline is called (by run_once, or by the scheduler's job, which
\* runs one job at a time).
RunPipeline ==
    /\ pc = "idle"
    /\ stage = "idle"
    /\ invNo < MaxInvocations
    /\ pc' = "fetch"
    /\ UNCHANGED <<core, digestVars, otherVars>>

\* Step 1, awaited: the feeds are fetched; they may hold nothing new.
RunFetch ==
    /\ pc = "fetch"
    /\ (FetchFeeds \/ UNCHANGED core)
    /\ pc' = StageAfter(pc)
    /\ UNCHANGED <<digestVars, otherVars>>

\* Steps 2 to 4: the stage at the run's position is invoked; when its query
\* is empty it returns at once and the run moves on.
RunStage ==
    /\ pc \in Stages
    /\ StartStage(pc)
    /\ pc' = IF stage' = "idle" THEN StageAfter(pc) ELSE pc
    /\ UNCHANGED <<digestVars, otherVars>>

\* The awaited invocation returns and the run moves on.
RunStageReturns ==
    /\ pc \in Stages
    /\ ReturnStage
    /\ pc' = StageAfter(pc)
    /\ UNCHANGED <<digestVars, otherVars>>

NextPipeline ==
    \/ RunPipeline
    \/ RunFetch
    \/ RunStage
    \/ \E i \in EpisodeIds : DownloadBegin(i) /\ UNCHANGED aux
    \/ \E i \in EpisodeIds : DownloadEnd(i) /\ UNCHANGED aux
    \/ \E i \in EpisodeIds : TranscribeBegin(i) /\ UNCHANGED aux
    \/ \E i \in EpisodeIds : TranscribeEnd(i) /\ UNCHANGED aux
    \/ \E i \in EpisodeIds : SummarizeBegin(i) /\ UNCHANGED aux
    \/ \E i \in EpisodeIds : SummarizeEnd(i) /\ UNCHANGED aux
    \/ RunStageReturns

\* The stages as run_pipeline drives them.
SpecPipeline == Init /\ [][NextPipeline]_vars

\* ---------------------------------------------------- single-episode scripts
\* The query of process_latest_episode and process_latest_per_podcast.
ScriptFilter(e) == e.downloaded = TRUE /\ e.transcript_file_path = Null

\* A script opens its session and takes the first episode of its query
\* (ScriptFilter, or the worker's filter in test_single_episode), then calls
\* TranscriptionWorker.process_episode on it. (process_latest_per_podcast
\* does the same for one episode of each podcast in turn.)
ScriptSelect(i) ==
    /\ pc = "idle"
    /\ stage = "idle"
    /\ invNo < MaxInvocations + MaxScripts
    /\ i \in Known
    /\ ScriptFilter(episodes[i]) \/ TranscriptionFilter(episodes[i])
    /\ pc' = "script"
    /\ invNo' = invNo + 1
    /\ stage' = "transcription"
    /\ snapshot' = {i}
    /\ eligibleAt' = {i}
    /\ task' = [k \in EpisodeIds |-> IF k = i THEN "waiting" ELSE "none"]
    /\ outcome' = NoOutcomes
    /\ results' = NoResults
    /\ calls' = NoCalls
    /\ UNCHANGED <<episodes, jobs, summaries, faults, result, atReturn, durable,
                   digestVars, otherVars>>

\* process_episode has returned: on True the script calls
\* SummarizationWorker.process_episode on the same episode in the same
\* session; on False it leaves the session block, which commits.
ScriptAfterTranscription ==
    /\ pc = "script"
    /\ stage = "transcription"
    /\ \A i \in snapshot : task[i] = "done"
    /\ IF \A i \in snapshot : results[i]
       THEN /\ stage' = "summarization"
            /\ task' = [k \in EpisodeIds |-> IF k \in snapshot THEN "waiting" ELSE "none"]
            /\ UNCHANGED <<snapshot, eligibleAt, durable, pc>>
       ELSE /\ stage' = "idle"
            /\ task' = NoTasks
            /\ snapshot' = {}
            /\ eligibleAt' = {}
            /\ durable' = Committed(episodes, jobs, summaries)
            /\ pc' = "idle"
    /\ outcome' = NoOutcomes
    /\ results' = NoResults
    /\ calls' = NoCalls
    /\ UNCHANGED <<episodes, jobs, summaries, invNo, faults, result, atReturn,
                   digestVars, otherVars>>

\* The summarization call has returned and the script leaves the session
\* block, which commits.
ScriptReturn ==
    /\ pc = "script"
    /\ stage = "summarization"
    /\ \A i \in snapshot : task[i] = "done"
    /\ durable' = Committed(episodes, jobs, summaries)
    /\ pc' = "idle"
    /\ stage' = "idle"
    /\ snapshot' = {}
    /\ eligibleAt' = {}
    /\ task' = NoTasks
    /\ outcome' = NoOutcomes
    /\ results' = NoResults
    /\ calls' = NoCalls
    /\ UNCHANGED <<episodes, jobs, summaries, invNo, faults, result, atReturn,
                   digestVars, otherVars>>

NextScripts ==
    \/ RunPipeline
    \/ RunFetch
    \/ RunStage
    \/ RunStageReturns
    \/ \E i \in EpisodeIds : ScriptSelect(i)
    \/ \E i \in EpisodeIds : DownloadBegin(i) /\ UNCHANGED aux
    \/ \E i \in EpisodeIds : DownloadEnd(i) /\ UNCHANGED aux
    \/ \E i \in EpisodeIds : TranscribeBegin(i) /\ UNCHANGED aux
    \/ \E i \in EpisodeIds : TranscribeEnd(i) /\ UNCHANGED aux
    \/ \E i \in EpisodeIds : SummarizeBegin(i) /\ UNCHANGED aux
    \/ \E i \in EpisodeIds : SummarizeEnd(i) /\ UNCHANGED aux
    \/ ScriptAfterTranscription
    \/ ScriptReturn

\* Pipeline runs and single-episode scripts, one at a time.
SpecScripts == Init /\ [][NextScripts]_vars

\* ------------------------------------------------------------------ digest
\* str.strip() on the configured entries the model draws.
Strip(s) ==
    CASE s = " " -> ""
      [] s = " a" -> "a"
      [] OTHER -> s

Range(seq) == { seq[j] : j \in 1..Len(seq) }

\* The loop of _get_subscriber_list over subscriber_emails.split(','): an
\* entry is stripped, and appended unless it is empty or already listed.
RECURSIVE AppendSubscribers(_, _)
AppendSubscribers(subscribers, entries) ==
    IF entries = << >> THEN subscribers
    ELSE LET email == Strip(Head(entries))
         IN  AppendSubscribers(
                 IF email # "" /\ email \notin Range(subscribers)
                 THEN Append(subscribers, email) ELSE subscribers,
                 Tail(entries))

\* _get_subscriber_list: the legacy recipient, stripped, when the setting
\* is a non-empty string; then the comma-separated subscribers.
GetSubscriberList(c) ==
    AppendSubscribers(
        IF c.recipient_email # "" THEN << Strip(c.recipient_email) >> ELSE << >>,
        c.subscriber_emails)

\* cutoff_date = datetime.utcnow() - timedelta(hours=25), in seconds.
Cutoff(now) == now - digest_window_hours * 3600

\* Mutant of InWindow: the cutoff itself is left out.
InWindowAfterCutoff(stamp, now) ==
    stamp # NullTime /\ stamp[1] > Cutoff(now)

\* Episode.summarization_completed_at >= cutoff_date; a NULL column never
\* satisfies the comparison.
InWindow(stamp, now) ==
    stamp # NullTime /\ stamp[1] >= Cutoff(now)

\* The query of send_daily_digest.
SelectForWindow(now) ==
    { i \in Known : /\ episodes[i].summary_file_path # Null
                    /\ InWindow(episodes[i].summarization_completed_at, now) }

\* Mutant of Returned: whatever the call meant to return, it returns False.
ReturnedFalse(entry, sel, value) ==
    [ NoDigest EXCEPT !.pc = "done", !.entry = entry, !.selected = sel,
                      !.ret = "False" ]

\* A digest call that has returned.
Returned(entry, sel, value) ==
    [ NoDigest EXCEPT !.pc = "done", !.entry = entry, !.selected = sel,
                      !.ret = value ]

\* The head of _send_digest_content, and of send_digest after its check of
\* the episodes: mail disabled and no subscribers both return False,
\* otherwise the loop over the subscribers starts.
BeginDelivery(entry, sel) ==
    LET subscribers == GetSubscriberList(cfg)
    IN  IF ~cfg.email_enabled THEN Returned(entry, sel, "False")
        ELSE IF subscribers = << >> THEN Returned(entry, sel, "False")
        ELSE [ NoDigest EXCEPT !.pc = "sending", !.entry = entry,
                               !.selected = sel, !.subscribers = subscribers,
                               !.idx = 1 ]

\* send_daily_digest up to the loop: an empty selection returns True.
SendDailyDigest ==
    /\ dg.pc = "idle"
    /\ stage = "idle"
    /\ LET sel == SelectForWindow(clock)
       IN  dg' = IF sel = {} THEN Returned("send_daily_digest", sel, "True")
                 ELSE BeginDelivery("send_daily_digest", sel)
    /\ UNCHANGED <<core, pc, cfg, clock, digest_logs, otherVars>>

\* send_digest(episodes) up to the loop: mail disabled returns False, and
\* so does an empty list of episodes.
SendDigest(eps) ==
    /\ dg.pc = "idle"
    /\ stage = "idle"
    /\ dg' = IF ~cfg.email_enabled THEN Returned("send_digest", eps, "False")
             ELSE IF eps = {} THEN Returned("send_digest", eps, "False")
             ELSE BeginDelivery("send_digest", eps)
    /\ UNCHANGED <<core, pc, cfg, clock, digest_logs, otherVars>>

\* Mutant of AfterFailure: a failed send ends the loop.
AfterFailureBreaks(idx, n) == n + 1

\* The except branch inside the loop logs the error and continues with the
\* next subscriber.
AfterFailure(idx, n) == idx + 1

\* Mutant of DeliveryVerdict: one delivered message is not enough.
DeliveryVerdictNeedsTwo(success_count) ==
    IF success_count > 1 THEN "True" ELSE "False"

\* What the delivery returns after its loop: success_count > 0.
DeliveryVerdict(success_count) ==
    IF success_count > 0 THEN "True" ELSE "False"

\* One pass of the loop: a message addressed to the subscriber alone is
\* built and handed to the transport, which delivers it or raises.
SendToSubscriber ==
    /\ dg.pc = "sending"
    /\ dg.idx <= Len(dg.subscribers)
    /\ \E ok \in BOOLEAN :
         dg' = [ dg EXCEPT
                   !.attempts = Append(@, [to |-> dg.subscribers[dg.idx], ok |-> ok]),
                   !.success_count = IF ok THEN @ + 1 ELSE @,
                   !.idx = IF ok THEN @ + 1
                           ELSE AfterFailure(@, Len(dg.subscribers)) ]
    /\ UNCHANGED <<core, pc, cfg, clock, digest_logs, otherVars>>

\* The loop is over and the delivery returns its verdict.
FinishDelivery ==
    /\ dg.pc = "sending"
    /\ dg.idx > Len(dg.subscribers)
    /\ dg' = [ dg EXCEPT !.pc = "done", !.ret = DeliveryVerdict(dg.success_count) ]
    /\ UNCHANGED <<core, pc, cfg, clock, digest_logs, otherVars>>

NextDigest ==
    \/ SendDailyDigest
    \/ \E eps \in SUBSET Known : SendDigest(eps)
    \/ SendToSubscriber
    \/ FinishDelivery

\* Rows as the stages leave them, fully processed or not yet summarized.
TranscribedRow == TranscriptionSucceeded(DownloadSucceeded(NewEpisode))
SummarizedRow == SummarizationSucceeded(TranscribedRow)

Stamped(row, stamp) == [row EXCEPT !.summarization_completed_at = stamp]

\* The rows the window query is tried on: summarized rows whose completion
\* time is NULL (as the summarization stage leaves it) or lies one second
\* before, at, or one second after the cutoff, and unsummarized rows with
\* and without a time.
WindowRows(now) ==
    { Stamped(SummarizedRow, s) :
        s \in {NullTime} \cup { <<Cutoff(now) + d>> : d \in {-1, 0, 1} } }
    \cup { Stamped(TranscribedRow, s) : s \in {NullTime, <<Cutoff(now)>>} }

SeqsUpTo(S, n) == UNION { [1..k -> S] : k \in 0..n }

\* The ledger and the summaries table that go with a registry.
LedgerOf(eps) ==
    { [ episode_id |-> i, job_type |-> "transcription", status |-> "completed",
        attempt |-> 0 ] :
        i \in { k \in DOMAIN eps : eps[k].transcript_file_path # Null } }
    \cup
    { [ episode_id |-> i, job_type |-> "summarization", status |-> "completed",
        attempt |-> 0 ] :
        i \in { k \in DOMAIN eps : eps[k].summary_file_path # Null } }
SummariesOf(eps) == { k \in DOMAIN eps : eps[k].summary_file_path # Null }

\* A registry and mail settings drawn from the given sets, with the ledger
\* and the summaries that go with the registry and no call in progress.
InitTables(registries, configs, now) ==
    /\ episodes \in registries
    /\ jobs = LedgerOf(episodes)
    /\ summaries = SummariesOf(episodes)
    /\ stage = "idle"
    /\ snapshot = {}
    /\ task = NoTasks
    /\ outcome = NoOutcomes
    /\ results = NoResults
    /\ calls = NoCalls
    /\ eligibleAt = {}
    /\ invNo = 0
    /\ faults = 0
    /\ result = [stage |-> "none", eligible |-> 0, attempted |-> 0,
                 succeeded |-> 0, failed |-> 0]
    /\ atReturn = << >>
    /\ durable = Committed(episodes, jobs, summaries)
    /\ pc = "idle"
    /\ cfg \in configs
    /\ clock = now
    /\ dg = NoDigest
    /\ digest_logs = {}
    /\ fetched = NoFetch
    /\ sessions = NoSessions
    /\ called = NoCall

\* A digest call on a registry and mail settings drawn from the given sets,
\* with no stage invocation in progress.
InitDigestFrom(registries, configs, now) ==
    /\ InitTables(registries, configs, now)
    /\ disk = {}

\* The clock stands one second past the window's length, which puts the
\* cutoff at second 1.
DigestClock == digest_window_hours * 3600 + 1

WindowRegistries == SeqsUpTo(WindowRows(DigestClock), MaxDigestRows)
FewConfigs ==
    [ email_enabled : BOOLEAN, recipient_email : {"", "a"},
      subscriber_emails : {<< >>, <<"b">>} ]

\* The digest on registries that exercise the window query.
InitDigest == InitDigestFrom(WindowRegistries, FewConfigs, DigestClock)
SpecDigest == InitDigest /\ [][NextDigest]_vars

\* The settings the fan-out is tried on: the legacy recipient unset, blank
\* or an address; each comma-separated entry empty, an address, or an
\* address with a leading blank that repeats the legacy recipient.
RawRecipients == {"", " ", "a"}
RawEntries == {"", " a", "b", "c"}
Configs ==
    [ email_enabled : BOOLEAN, recipient_email : RawRecipients,
      subscriber_emails : SeqsUpTo(RawEntries, MaxSubscribers) ]
DeliverRegistries ==
    { << >>, << SummarizedRow >>,
      << Stamped(SummarizedRow, <<Cutoff(DigestClock)>>) >> }

\* The digest on mail settings that exercise the fan-out.
InitDeliver == InitDigestFrom(DeliverRegistries, Configs, DigestClock)
SpecDeliver == InitDeliver /\ [][NextDigest]_vars

\* -------------------------------------------------- acquisition, by entries
\* The guids the feeds may carry, and the active podcasts in query order.
Guids == {"g1", "g2", "g3"}
Podcasts == 1..2

\* Episode(**episode_data): the column defaults and the entry's guid.
WithGuid(row, g) == [guid |-> g] @@ row

KnownGuids == { episodes[i].guid : i \in Known }

\* fetch_podcast_feeds is called: it opens its session and starts the loop
\* over the active podcasts with new_episodes empty.
FetchBegin ==
    /\ fetched.pc = "idle"
    /\ stage = "idle"
    /\ fetched' = [ pc |-> "fetching", podcast |-> 1, parsed |-> 0,
                    new_episodes |-> << >>, saved |-> << >>, raised |-> {},
                    skipped |-> {} ]
    /\ UNCHANGED <<core, pc, digestVars, sessions, directVars>>

\* _parse_episode_entry returns None for an entry whose guid the session's
\* query finds in the table; entries gathered earlier in the same call have
\* not been added to the session yet and are not found.
AlreadyExists(g) == g \in KnownGuids

\* The feed of the current podcast yields one more entry, with guid g:
\* it is skipped when its guid exists, else its episode_data is gathered.
ParseEntry(g) ==
    /\ fetched.pc = "fetching"
    /\ fetched.podcast \in Podcasts
    /\ fetched.parsed < MaxEntries
    /\ fetched' =
         [ fetched EXCEPT
             !.parsed = @ + 1,
             !.skipped = IF AlreadyExists(g) THEN @ \cup {g} ELSE @,
             !.new_episodes =
                 IF AlreadyExists(g) THEN @
                 ELSE Append(@, [podcast_id |-> fetched.podcast, guid |-> g]) ]
    /\ UNCHANGED <<core, pc, digestVars, sessions, directVars>>

\* The request for the current podcast's feed raises: _fetch_feed re-raises,
\* the loop of fetch_podcast_feeds logs it and continues with the next.
FeedRaises ==
    /\ fetched.pc = "fetching"
    /\ fetched.podcast \in Podcasts
    /\ fetched.parsed = 0
    /\ fetched' = [ fetched EXCEPT !.podcast = @ + 1,
                                   !.raised = @ \cup {fetched.podcast} ]
    /\ UNCHANGED <<core, pc, digestVars, sessions, directVars>>

\* The current feed has no more entries: the loop goes to the next podcast.
FeedDone ==
    /\ fetched.pc = "fetching"
    /\ fetched.podcast \in Podcasts
    /\ fetched' = [ fetched EXCEPT !.podcast = @ + 1, !.parsed = 0 ]
    /\ UNCHANGED <<core, pc, digestVars, sessions, directVars>>

\* Mutant of UniqueViolated: the guid column carries no constraint.
UniqueNeverViolated(new) == FALSE

\* Episode.guid is unique: the commit raises when two of the rows to insert
\* share a guid or one of them repeats a stored guid.
UniqueViolated(new) ==
    \/ \E j, k \in 1..Len(new) : j # k /\ new[j].guid = new[k].guid
    \/ \E j \in 1..Len(new) : new[j].guid \in KnownGuids

\* save_episodes: every gathered episode is added and one commit follows;
\* when it raises, the session is rolled back and nothing is saved.
SaveEpisodes(new) == IF UniqueViolated(new) THEN << >> ELSE new

\* The loop is over: save_episodes when anything was gathered, then return.
FetchReturn ==
    /\ fetched.pc = "fetching"
    /\ fetched.podcast \notin Podcasts
    /\ LET saved == SaveEpisodes(fetched.new_episodes)
       IN  /\ episodes' = episodes \o [ j \in 1..Len(saved) |->
                                          WithGuid(NewEpisode, saved[j].guid) ]
           /\ fetched' = [ fetched EXCEPT !.pc = "idle", !.saved = saved ]
    /\ durable' = Committed(episodes', jobs, summaries)
    /\ UNCHANGED <<jobs, summaries, stage, snapshot, task, outcome, results,
                   calls, eligibleAt, invNo, faults, result, atReturn,
                   pc, digestVars, sessions, directVars>>

NextFetch ==
    \/ FetchBegin
    \/ \E g \in Guids : ParseEntry(g)
    \/ FeedRaises
    \/ FeedDone
    \/ FetchReturn

\* The registries acquisition is tried on: empty, or one item that is new,
\* has failed its download once, or is fully processed.
FetchRegistries ==
    { << >> } \cup
    { << WithGuid(row, g) >> :
        row \in { NewEpisode, DownloadFailed(NewEpisode, "Download failed"),
                  SummarizedRow },
        g \in Guids }

InitFetch ==
    InitDigestFrom(FetchRegistries,
                   {[email_enabled |-> FALSE, recipient_email |-> "",
                     subscriber_emails |-> << >>]}, 0)
SpecFetch == InitFetch /\ [][NextFetch]_vars

\* ---------------------------------------------------------- concurrent runs
\* Two processes run the pipeline on one database. Each stage invocation
\* opens its own session: its query reads the stored tables, the tasks
\* change the session's objects, and leaving the session block commits.
\* Here episodes, jobs and summaries are the stored tables.
RaceFrame ==
    <<stage, snapshot, task, outcome, results, calls, eligibleAt, invNo,
      result, atReturn, pc, digestVars, fetched, directVars>>

\* run_pipeline is called in process r.
RaceRunPipeline(r) ==
    /\ sessions[r].pos = "none"
    /\ sessions' = [sessions EXCEPT ![r].pos = "fetch"]
    /\ UNCHANGED <<core, pc, digestVars, fetched, directVars>>

\* Step 1 of the run: the feeds hold nothing new.
RaceFetch(r) ==
    /\ sessions[r].pos = "fetch"
    /\ sessions' = [sessions EXCEPT ![r].pos = StageAfter("fetch")]
    /\ UNCHANGED <<core, pc, digestVars, fetched, directVars>>

\* Mutant of RaceQuery: rows in another run's unfinished batch are left out.
RaceQueryUnclaimed(r, s) ==
    { q \ UNION { sessions[o].snapshot : o \in Runs \ {r} } :
        q \in QueryResults(s) }

\* The pending query of stage s in process r: the filter on the stored
\* rows and nothing else.
RaceQuery(r, s) == QueryResults(s)

\* The stage at the run's position is invoked: an empty query returns at
\* once, else one task per row is created.
RaceStart(r) ==
    /\ sessions[r].pos \in Stages
    /\ sessions[r].stage = "idle"
    /\ \E q \in RaceQuery(r, sessions[r].pos) :
         sessions' = [sessions EXCEPT ![r] =
            IF q = {}
            THEN [ @ EXCEPT !.pos = StageAfter(@) ]
            ELSE [ @ EXCEPT !.stage = sessions[r].pos,
                            !.snapshot = q,
                            !.task = [ i \in q |-> "waiting" ],
                            !.loaded = episodes,
                            !.rows = episodes,
                            !.added = {},
                            !.ledger = {} ] ]
    /\ UNCHANGED <<core, pc, digestVars, fetched, directVars>>

\* The ProcessingJob row process_episode adds in process r.
RaceJob(r, i, type, status) ==
    [ episode_id |-> i, job_type |-> type, status |-> status, attempt |-> r ]

\* A task of process r enters the pool: a download suspends in the
\* transport; process_episode makes its two file checks on the session's
\* object and adds the ledger row.
RaceBegin(r, i) ==
    LET run == sessions[r]
        s == run.stage
    IN  /\ s \in Stages
        /\ i \in run.snapshot
        /\ run.task[i] = "waiting"
        /\ Cardinality({ k \in run.snapshot : run.task[k] = "running" }) < Limit(s)
        /\ \E inputOnDisk \in BOOLEAN :
             LET check ==
                   CASE s = "download" -> "go"
                     [] s = "transcription" ->
                          Precheck(run.rows[i].audio_file_path, inputOnDisk,
                                   run.rows[i].transcript_file_path, FALSE)
                     [] s = "summarization" ->
                          Precheck(run.rows[i].transcript_file_path, inputOnDisk,
                                   run.rows[i].summary_file_path, FALSE)
             IN  /\ s = "download" => inputOnDisk
                 /\ MayFail(check = "no_input")
                 /\ faults' = Count(check = "no_input")
                 /\ sessions' = [sessions EXCEPT ![r] =
                        [ @ EXCEPT
                            !.task[i] = IF check = "go" THEN "running" ELSE "done",
                            !.ledger = IF check = "go" /\ s # "download"
                                       THEN @ \cup {RaceJob(r, i, s, "processing")}
                                       ELSE @ ] ]
        /\ UNCHANGED <<episodes, jobs, summaries, durable, RaceFrame>>

\* What a finished task leaves on the session's object.
RaceOutcome(s, e, o) ==
    CASE s = "download" /\ o = "ok" -> DownloadSucceeded(e)
      [] s = "download" /\ o = "failed" -> DownloadFailed(e, "Download failed")
      [] s = "download" /\ o = "raised" -> DownloadFailed(e, "exception")
      [] s = "transcription" /\ o = "ok" -> TranscriptionSucceeded(e)
      [] s = "summarization" /\ o = "ok" -> SummarizationSucceeded(e)
      [] OTHER -> e

\* A task of process r finishes: "ok", "failed" (_download_file returned
\* False) or "raised" (the except branch).
RaceEnd(r, i) ==
    LET run == sessions[r]
        s == run.stage
    IN  /\ s \in Stages
        /\ i \in run.snapshot
        /\ run.task[i] = "running"
        /\ \E o \in {"ok", "failed", "raised"} :
             /\ o = "failed" => s = "download"
             /\ MayFail(o # "ok")
             /\ faults' = Count(o # "ok")
             /\ sessions' = [sessions EXCEPT ![r] =
                    [ @ EXCEPT
                        !.task[i] = "done",
                        !.rows[i] = RaceOutcome(s, @, o),
                        !.added = IF s = "summarization" /\ o = "ok"
                                  THEN @ \cup {i} ELSE @,
                        !.ledger =
                            IF s = "download" THEN @
                            ELSE (@ \ {RaceJob(r, i, s, "processing")}) \cup
                                 {RaceJob(r, i, s, IF o = "ok" THEN "completed"
                                                             ELSE "failed")} ] ]
        /\ UNCHANGED <<episodes, jobs, summaries, durable, RaceFrame>>

\* The UPDATE a commit issues for one object: the columns the session
\* changed since it loaded the row; the other columns keep what is stored.
Flush(stored, loaded, mine) ==
    [ c \in DOMAIN stored |-> IF mine[c] # loaded[c] THEN mine[c] ELSE stored[c] ]

\* Summary.episode_id is unique: inserting a second summary of an episode
\* makes the commit raise.
SummaryConflict(added) == added \cap summaries # {}

\* gather has every result and the session block is left: the commit
\* writes the session's changes, or raises, in which case get_db_session
\* rolls back and the exception ends the run.
RaceReturn(r) ==
    LET run == sessions[r]
    IN  /\ run.stage \in Stages
        /\ \A i \in run.snapshot : run.task[i] = "done"
        /\ IF SummaryConflict(run.added)
           THEN /\ UNCHANGED <<episodes, jobs, summaries>>
                /\ sessions' = [sessions EXCEPT ![r] =
                       [ @ EXCEPT !.pos = "idle", !.stage = "idle",
                                  !.error = TRUE ] ]
           ELSE /\ episodes' = [ i \in DOMAIN episodes |->
                       IF i \in run.snapshot
                       THEN Flush(episodes[i], run.loaded[i], run.rows[i])
                       ELSE episodes[i] ]
                /\ jobs' = jobs \cup run.ledger
                /\ summaries' = summaries \cup run.added
                /\ sessions' = [sessions EXCEPT ![r] =
                       [ @ EXCEPT !.pos = StageAfter(run.stage),
                                  !.stage = "idle" ] ]
        /\ durable' = Committed(episodes', jobs', summaries')
        /\ UNCHANGED <<faults, RaceFrame>>

NextRace ==
    \/ \E r \in Runs : RaceRunPipeline(r)
    \/ \E r \in Runs : RaceFetch(r)
    \/ \E r \in Runs : RaceStart(r)
    \/ \E r \in Runs, i \in EpisodeIds : RaceBegin(r, i)
    \/ \E r \in Runs, i \in EpisodeIds : RaceEnd(r, i)
    \/ \E r \in Runs : RaceReturn(r)

\* The registries the two runs meet: up to MaxRaceItems rows, each new,
\* downloaded or transcribed.
RaceRegistries ==
    SeqsUpTo({ NewEpisode, DownloadSucceeded(NewEpisode), TranscribedRow },
             MaxRaceItems) \ { << >> }

InitRace ==
    InitDigestFrom(RaceRegistries,
                   {[email_enabled |-> FALSE, recipient_email |-> "",
                     subscriber_emails |-> << >>]}, 0)
SpecRace == InitRace /\ [][NextRace]_vars

\* ------------------------------------------------------------ direct calls
\* process_episode of either worker called on an episode the caller holds,
\* outside a stage invocation, as the scripts and a caller's retry do. The
\* files the two os.path.exists checks look at are followed in disk.
Kinds == {"audio", "transcript", "summary"}
PathOf(e, kind) ==
    CASE kind = "audio" -> e.audio_file_path
      [] kind = "transcript" -> e.transcript_file_path
      [] kind = "summary" -> e.summary_file_path

\* What each per-item operation reads and what it writes.
InputOf(s) == IF s = "transcription" THEN "audio" ELSE "transcript"
OutputOf(s) == IF s = "transcription" THEN "transcript" ELSE "summary"

\* The files that may lie on disk for a registry: those of the recorded
\* references (a recorded file may have been removed since).
Files(eps) ==
    { f \in (DOMAIN eps) \X Kinds : PathOf(eps[f[1]], f[2]) # Null }

\* The whole of process_episode(episode, db) for stage s on episode i: the
\* two checks, the ledger row, the inner try with its updates or its except
\* branch, and the return value. The caller's commit is not part of it.
ProcessEpisode(i, s) ==
    /\ pc = "idle"
    /\ stage = "idle"
    /\ invNo < MaxDirectCalls
    /\ i \in Known
    /\ LET e == episodes[i]
           check == Precheck(PathOf(e, InputOf(s)), <<i, InputOf(s)>> \in disk,
                             PathOf(e, OutputOf(s)), <<i, OutputOf(s)>> \in disk)
       IN  \E modelRaised \in BOOLEAN, raised \in BOOLEAN :
             LET ok == /\ check = "go"
                       /\ ~raised
                       /\ ~transcribe_audio(modelRaised).raises
                 row == [ episode_id |-> i, job_type |-> s,
                          status |-> IF ok THEN "completed" ELSE "failed",
                          attempt |-> invNo + 1 ]
             IN  /\ check # "go" => (~modelRaised /\ ~raised)
                 /\ modelRaised => s = "transcription"
                 /\ MayFail(modelRaised \/ raised)
                 /\ faults' = Count(modelRaised \/ raised)
                 /\ episodes' = [episodes EXCEPT ![i] =
                        IF ~ok THEN @
                        ELSE IF s = "transcription" THEN TranscriptionSucceeded(@)
                        ELSE SummarizationSucceeded(@)]
                 /\ jobs' = IF check = "go" THEN jobs \cup {row} ELSE jobs
                 /\ summaries' = IF ok /\ s = "summarization"
                                 THEN summaries \cup {i} ELSE summaries
                 /\ disk' = IF ok THEN disk \cup {<<i, OutputOf(s)>>} ELSE disk
                 /\ called' = [ episode |-> i, type |-> s,
                                ret |-> (check = "already" \/ ok) ]
    /\ invNo' = invNo + 1
    /\ UNCHANGED <<stage, snapshot, task, outcome, results, calls, eligibleAt,
                   result, atReturn, durable, pc, digestVars, fetched, sessions>>

NextDirect ==
    \E i \in EpisodeIds, s \in {"transcription", "summarization"} :
        ProcessEpisode(i, s)

\* One episode at any point of its progress, with any of its recorded files
\* on disk or removed.
DirectRegistries ==
    { << row >> : row \in { NewEpisode, DownloadSucceeded(NewEpisode),
                            TranscribedRow, SummarizedRow } }

InitDirect ==
    /\ InitTables(DirectRegistries,
                  {[email_enabled |-> FALSE, recipient_email |-> "",
                    subscriber_emails |-> << >>]}, 0)
    /\ disk \in SUBSET Files(episodes)
SpecDirect == InitDirect /\ [][NextDirect]_vars

\* ------------------------------------------------------ run with a digest
\* main of github_actions_runner: fetch, the three stages and then
\* send_daily_digest, each awaited in turn, once.
RunnerAfter(p) == IF p = "summarization" THEN "digest" ELSE StageAfter(p)

\* main is started.
RunnerStart ==
    /\ dg.pc = "idle"
    /\ RunPipeline

\* The stage at the runner's position is invoked; an empty query returns
\* at once and the runner moves on.
RunnerStage ==
    /\ pc \in Stages
    /\ StartStage(pc)
    /\ pc' = IF stage' = "idle" THEN RunnerAfter(pc) ELSE pc
    /\ UNCHANGED <<digestVars, otherVars>>

\* The awaited stage returns and the runner moves on.
RunnerStageReturns ==
    /\ pc \in Stages
    /\ ReturnStage
    /\ pc' = RunnerAfter(pc)
    /\ UNCHANGED <<digestVars, otherVars>>

\* The last step of main: send_daily_digest is called.
RunnerDigest ==
    /\ pc = "digest"
    /\ SendDailyDigest

\* The digest call has returned and main ends.
RunnerEnd ==
    /\ pc = "digest"
    /\ dg.pc = "done"
    /\ pc' = "done"
    /\ UNCHANGED <<core, digestVars, otherVars>>

NextRunner ==
    \/ RunnerStart
    \/ RunFetch
    \/ RunnerStage
    \/ \E i \in EpisodeIds : DownloadBegin(i) /\ UNCHANGED aux
    \/ \E i \in EpisodeIds : DownloadEnd(i) /\ UNCHANGED aux
    \/ \E i \in EpisodeIds : TranscribeBegin(i) /\ UNCHANGED aux
    \/ \E i \in EpisodeIds : TranscribeEnd(i) /\ UNCHANGED aux
    \/ \E i \in EpisodeIds : SummarizeBegin(i) /\ UNCHANGED aux
    \/ \E i \in EpisodeIds : SummarizeEnd(i) /\ UNCHANGED aux
    \/ RunnerStageReturns
    \/ RunnerDigest
    \/ SendToSubscriber
    \/ FinishDelivery
    \/ RunnerEnd

\* The registries the runner starts on: a new item, a transcribed item, or
\* an item summarized earlier whose completion time lies in the window
\* beside a new one.
RunnerRegistries ==
    { << NewEpisode >>, << TranscribedRow >>,
      << Stamped(SummarizedRow, <<Cutoff(DigestClock) + 1>>), TranscribedRow >> }

\* Mail switched on or off, with a legacy recipient and one subscriber.
RunnerConfigs ==
    { c \in FewConfigs : c.recipient_email = "a" /\ c.subscriber_emails = <<"b">> }

InitRunner == InitDigestFrom(RunnerRegistries, RunnerConfigs, DigestClock)
SpecRunner == InitRunner /\ [][NextRunner]_vars

\* ------------------------------------------------------------- scheduler
\* The digest job of schedule_jobs: asyncio.run(self.send_daily_digest()).
\* PodcastAgent.send_daily_digest calls the composer's coroutine function
\* without awaiting it: the call yields a coroutine object and runs none of
\* the composer's body. The object is truthy, so the success branch logs,
\* and the object is what the job returns.
AgentSendDailyDigest ==
    /\ pc = "idle"
    /\ stage = "idle"
    /\ dg.pc = "idle"
    /\ dg' = Returned("PodcastAgent.send_daily_digest", {}, "coroutine")
    /\ UNCHANGED <<core, pc, cfg, clock, digest_logs, otherVars>>

\* run_scheduler: schedule.run_pending() runs the due jobs one at a time,
\* the pipeline job and the digest job.
NextScheduler ==
    \/ RunPipeline
    \/ RunFetch
    \/ RunStage
    \/ \E i \in EpisodeIds : DownloadBegin(i) /\ UNCHANGED aux
    \/ \E i \in EpisodeIds : DownloadEnd(i) /\ UNCHANGED aux
    \/ \E i \in EpisodeIds : TranscribeBegin(i) /\ UNCHANGED aux
    \/ \E i \in EpisodeIds : TranscribeEnd(i) /\ UNCHANGED aux
    \/ \E i \in EpisodeIds : SummarizeBegin(i) /\ UNCHANGED aux
    \/ \E i \in EpisodeIds : SummarizeEnd(i) /\ UNCHANGED aux
    \/ RunStageReturns
    \/ AgentSendDailyDigest

InitScheduler == InitDigestFrom(RunnerRegistries, RunnerConfigs, DigestClock)
SpecScheduler == InitScheduler /\ [][NextScheduler]_vars

\* ---------------------------------------------------------- repeated runs
\* The transcription stage invoked again and again, as the scheduler's
\* pipeline job does, on a disk where some recorded audio files are missing
\* and with executors that succeed whenever their input file exists. One
\* step is one whole invocation: the query with its limit, process_episode
\* for every row returned, and the commit. A row whose audio file is missing
\* gets False from the first check and is left as it was; the others get
\* their transcript and a completed ledger row. The invocation counter
\* is kept modulo MaxInvocations + 1, so that runs of any length stay in a
\* finite state space and every invocation is a step.
TranscribeAll(q) ==
    /\ pc = "idle"
    /\ stage = "idle"
    /\ q \in QueryResults("transcription")
    /\ invNo' = (invNo + 1) % (MaxInvocations + 1)
    /\ LET go == { i \in q :
                     Precheck(episodes[i].audio_file_path, <<i, "audio">> \in disk,
                              episodes[i].transcript_file_path,
                              <<i, "transcript">> \in disk) = "go" }
       IN  /\ episodes' = [ i \in DOMAIN episodes |->
                   IF i \in go THEN TranscriptionSucceeded(episodes[i])
                   ELSE episodes[i] ]
           /\ jobs' = jobs \cup
                   { [ episode_id |-> i, job_type |-> "transcription",
                       status |-> "completed", attempt |-> invNo' ] : i \in go }
           /\ disk' = disk \cup { <<i, "transcript">> : i \in go }
           /\ result' = IF q = {} THEN EmptyResult("transcription")
                        ELSE [ stage |-> "transcription",
                               eligible |-> Cardinality(Eligible("transcription")),
                               attempted |-> Cardinality(q),
                               succeeded |-> Cardinality(go),
                               failed |-> Cardinality(q \ go) ]
    /\ atReturn' = episodes'
    /\ durable' = Committed(episodes', jobs', summaries)
    /\ UNCHANGED <<summaries, stage, snapshot, task, outcome, results, calls,
                   eligibleAt, faults, pc, digestVars, fetched, sessions, called>>

NextLive == \E q \in SUBSET EpisodeIds : TranscribeAll(q)

\* Up to MaxEpisodes downloaded items, the audio file of each on disk or not.
LiveRegistries ==
    SeqsUpTo({ DownloadSucceeded(NewEpisode) }, MaxEpisodes) \ { << >> }

InitLive ==
    /\ InitTables(LiveRegistries,
                  {[email_enabled |-> FALSE, recipient_email |-> "",
                    subscriber_emails |-> << >>]}, 0)
    /\ disk \in SUBSET { <<i, "audio">> : i \in DOMAIN episodes }

\* The stage is invoked again and again.
SpecLive == InitLive /\ [][NextLive]_vars /\ WF_vars(NextLive)

\* ------------------------------------------------------------ interruption
\* get_db_session commits only when its block is left normally; when the
\* invocation is interrupted before that (the process dies, or an exception
\* leaves the block and the session is rolled back and closed), everything
\* the session held since the last commit is gone.
Abort ==
    /\ stage # "idle"
    /\ episodes' = durable.episodes
    /\ jobs' = durable.jobs
    /\ summaries' = durable.summaries
    /\ stage' = "idle"
    /\ snapshot' = {}
    /\ eligibleAt' = {}
    /\ task' = NoTasks
    /\ outcome' = NoOutcomes
    /\ results' = NoResults
    /\ calls' = NoCalls
    /\ UNCHANGED <<invNo, faults, result, atReturn, durable>>

NextCrash ==
    \/ FetchFeeds /\ UNCHANGED aux
    \/ \E s \in Stages : StartStage(s) /\ UNCHANGED aux
    \/ \E i \in EpisodeIds : DownloadBegin(i) /\ UNCHANGED aux
    \/ \E i \in EpisodeIds : DownloadEnd(i) /\ UNCHANGED aux
    \/ \E i \in EpisodeIds : TranscribeBegin(i) /\ UNCHANGED aux
    \/ \E i \in EpisodeIds : TranscribeEnd(i) /\ UNCHANGED aux
    \/ \E i \in EpisodeIds : SummarizeBegin(i) /\ UNCHANGED aux
    \/ \E i \in EpisodeIds : SummarizeEnd(i) /\ UNCHANGED aux
    \/ ReturnStage /\ UNCHANGED aux
    \/ Abort /\ UNCHANGED aux

\* The stage invocations, any of which may be interrupted.
SpecCrash == Init /\ [][NextCrash]_vars

\* =================================================================== claims
\* Vocabulary of the claims: a stage's own artifact and its predecessor's,
\* read off the row, and the completion timestamp that goes with it.
OwnArtifact(s, e) ==
    CASE s = "download" -> e.audio_file_path
      [] s = "transcription" -> e.transcript_file_path
      [] s = "summarization" -> e.summary_file_path

CompletedAt(s, e) ==
    CASE s = "download" -> e.download_completed_at
      [] s = "transcription" -> e.transcription_completed_at
      [] s = "summarization" -> e.summarization_completed_at

\* The executor call of the attempt raised or reported an error.
ExecutorFailed(i) == outcome[i] \in {"failed", "raised", "save_raised"}

AllDone == stage # "idle" /\ \A i \in snapshot : task[i] = "done"

\* The rows the ledger holds for episode i's attempt in this invocation.
AttemptRows(i) == { j \in jobs : j.episode_id = i /\ j.attempt = invNo }

\* C1: during a stage invocation the number of executor calls in flight
\* never exceeds the stage's concurrency limit.
C1_ConcurrencyBound ==
    stage # "idle" => Cardinality(InFlight) <= Limit(stage)

\* C1 witness: the pool is full while another item of the batch still waits.
C1_Witness ==
    /\ stage # "idle"
    /\ Cardinality(InFlight) = Limit(stage)
    /\ \E i \in snapshot : task[i] = "waiting"

\* C2: when exactly one executor call of a batch fails and the others
\* succeed, the invocation returns succeeded = N-1, failed = 1 and the other
\* N-1 episodes carry the stage's artifact.
C2_PartialFailureIsolation ==
    [][ (/\ ReturnStage
         /\ Cardinality({ i \in snapshot : ExecutorFailed(i) }) = 1
         /\ \A i \in snapshot : ExecutorFailed(i) \/ outcome[i] = "ok")
        => /\ result'.succeeded = Cardinality(snapshot) - 1
           /\ result'.failed = 1
           /\ \A i \in snapshot :
                ~ExecutorFailed(i) => OwnArtifact(stage, episodes'[i]) # Null ]_vars

\* C3 as stated: a stage invoked again right after it returned, with the
\* registry untouched in between, attempts nothing.
C3_SecondInvocationAttemptsNothing ==
    [][ \A s \in Stages :
          (StartStage(s) /\ result.stage = s /\ atReturn = episodes)
          => snapshot' = {} /\ result'.attempted = 0 ]_vars

\* C3 amended: the second invocation attempts exactly the episodes the
\* first one left without the artifact (at most 3 of them for
\* transcription), and none of those it completed.
C3_SecondInvocationAttemptsLeftovers ==
    [][ \A s \in Stages :
          (StartStage(s) /\ result.stage = s /\ atReturn = episodes)
          => LET left == result.eligible - result.succeeded
             IN  /\ Cardinality(snapshot') =
                      IF s = "transcription" THEN Min(TranscriptionQueryLimit, left)
                      ELSE left
                 /\ \A i \in snapshot' : OwnArtifact(s, episodes[i]) = Null
                 /\ (left = 0 => result'.attempted = 0 /\ result'.stage = s) ]_vars

\* C3 witness: a stage is started again right after an invocation of it
\* that completed one episode and failed another.
C3_Witness ==
    /\ stage # "idle"
    /\ result.stage = stage
    /\ atReturn = episodes
    /\ result.succeeded > 0
    /\ result.failed > 0
    /\ \A i \in snapshot : task[i] = "waiting"

C5_Eligibility ==
    [][ \A s \in Stages : StartStage(s) =>
          \A i \in snapshot' :
            CASE s = "download" ->
                   /\ episodes[i].audio_file_path = Null
                   /\ episodes[i].downloaded = FALSE
              [] s = "transcription" ->
                   /\ episodes[i].audio_file_path # Null
                   /\ episodes[i].transcript_file_path = Null
              [] s = "summarization" ->
                   /\ episodes[i].transcript_file_path # Null
                   /\ episodes[i].summary_file_path = Null ]_vars

\* C5 witness: a summarization invocation has dispatched an episode while
\* the registry also holds episodes at other stages of progress.
C5_Witness ==
    /\ stage = "summarization"
    /\ InFlight # {}
    /\ \E i \in Known : episodes[i].transcript_file_path = Null

\* C6: the returned counts satisfy attempted = succeeded + failed, and
\* attempted is the number of episodes dispatched.
C6_CountsAddUp ==
    [][ (stage = "idle" /\ result' # result) \/ ReturnStage =>
          /\ result'.attempted = result'.succeeded + result'.failed
          /\ result'.attempted = Cardinality({ i \in EpisodeIds : calls[i] > 0 }) ]_vars

\* C6 witness: an invocation about to return a success and a failure.
C6_Witness ==
    /\ AllDone
    /\ \E i \in snapshot : results[i] = TRUE
    /\ \E i \in snapshot : results[i] = FALSE

\* C7: every attempted episode has exactly one ledger row for the attempt.
C7_OneLedgerRowPerAttempt ==
    [][ ReturnStage =>
          \A i \in snapshot : Cardinality(AttemptRows(i)) = 1 ]_vars

\* C8: every attempted episode carries exactly one outcome in the registry:
\* the artifact after a success, processing_error after a failure.
C8_OneRegistryOutcome ==
    [][ ReturnStage =>
          \A i \in snapshot :
            /\ results[i] = TRUE =>
                 /\ OwnArtifact(stage, episodes[i]) # Null
                 /\ episodes[i].processing_error = Null
            /\ results[i] = FALSE =>
                 /\ OwnArtifact(stage, episodes[i]) = Null
                 /\ episodes[i].processing_error # Null ]_vars

\* C9: an error raised by the speech model makes the attempt a failure:
\* counted as failed, transcript left null, episode still eligible.
C9_TranscriptionErrorIsFailure ==
    \A i \in snapshot :
      (stage = "transcription" /\ task[i] = "done" /\ outcome[i] = "raised")
      => /\ results[i] = FALSE
         /\ episodes[i].transcript_file_path = Null
         /\ i \in Eligible("transcription")

\* C10: a stage's completion timestamp is set exactly when its artifact is.
C10_TimestampIffArtifact ==
    \A i \in Known : \A s \in Stages :
      (CompletedAt(s, episodes[i]) # NullTime) <=> (OwnArtifact(s, episodes[i]) # Null)

\* C11: no item has a later stage's artifact while an earlier stage's
\* artifact is null: a summary implies a transcript, and a transcript
\* implies audio.
C11_ArtifactOrder ==
    \A i \in Known :
      /\ episodes[i].summary_file_path # Null => episodes[i].transcript_file_path # Null
      /\ episodes[i].transcript_file_path # Null => episodes[i].audio_file_path # Null

\* C11 witness: a script has transcribed and summarized its episode in one
\* session.
C11_Witness ==
    /\ pc = "script"
    /\ stage = "summarization"
    /\ \E i \in snapshot :
         /\ task[i] = "done"
         /\ episodes[i].summary_file_path # Null

\* C12: the boolean stage flags agree with artifact presence: transcribed
\* iff transcript_file_path is set, summarized iff summary_file_path is set.
C12_FlagsMatchArtifacts ==
    \A i \in Known :
      /\ episodes[i].transcribed <=> (episodes[i].transcript_file_path # Null)
      /\ episodes[i].summarized <=> (episodes[i].summary_file_path # Null)

\* The artifact markers and stage flags of a row.
Markers(e) ==
    << e.audio_file_path, e.downloaded, e.transcript_file_path, e.transcribed,
       e.summary_file_path, e.summarized >>

\* C19: eligibility depends only on the artifact markers: a step that
\* changes ledger rows, retry counters or last-error fields but no marker
\* leaves every stage's eligible set as it was.
C19_EligibilityReadsOnlyMarkers ==
    [][ (/\ DOMAIN episodes' = DOMAIN episodes
         /\ \A i \in Known : Markers(episodes'[i]) = Markers(episodes[i]))
        => \A s \in Stages : Eligible(s)' = Eligible(s) ]_vars

\* C19 witness: an episode whose download failed before, with its retry
\* counter and last error set, is selected again by a download invocation.
C19_Witness ==
    /\ stage = "download"
    /\ \E i \in snapshot :
         /\ episodes[i].retry_count > 0
         /\ episodes[i].processing_error # Null
         /\ task[i] = "waiting"

\* The stage order spelled out: the only moves a run may make.
RunOrder ==
    { <<"idle", "fetch">>, <<"fetch", "download">>,
      <<"download", "transcription">>, <<"transcription", "summarization">>,
      <<"summarization", "idle">> }

\* C20: within a pipeline run the stages run strictly in the order
\* acquisition, download, transcription, summarization: an invocation is
\* only started at the run's position and with no other in progress, and the
\* run only moves to the next stage once the invocation has returned with
\* every task of its batch done.
C20_StagesStrictlySequential ==
    [][ /\ (stage' # "idle" => stage' = pc')
        /\ (invNo' # invNo => stage = "idle" /\ pc \in Stages)
        /\ (pc' # pc =>
              /\ <<pc, pc'>> \in RunOrder
              /\ stage' = "idle"
              /\ \A i \in snapshot : task[i] = "done") ]_vars

\* C20 witness: the run has reached summarization of an episode it
\* downloaded and transcribed earlier in the same run.
C20_Witness ==
    /\ pc = "summarization"
    /\ stage = "summarization"
    /\ invNo = 3
    /\ AllDone
    /\ \E i \in snapshot : outcome[i] = "ok"

\* C13: an item's recorded outcome is committed on its own: when an
\* invocation is interrupted after an item's executor succeeded, the
\* registry still holds that item's artifact.
C13_ItemOutcomeSurvivesInterruption ==
    [][ Abort =>
          \A i \in snapshot :
            (task[i] = "done" /\ outcome[i] = "ok")
              => OwnArtifact(stage, episodes'[i]) # Null ]_vars
\* The window query has run: send_daily_digest has been entered.
WindowSelected == dg.entry = "send_daily_digest"

\* The fan-out has been called: send_digest, or _send_digest_content from
\* send_daily_digest with a non-empty selection.
DeliverCalled ==
    \/ dg.entry = "send_digest"
    \/ dg.entry = "send_daily_digest" /\ dg.selected # {}

Delivered == Cardinality({ j \in 1..Len(dg.attempts) : dg.attempts[j].ok })
Failed == Cardinality({ j \in 1..Len(dg.attempts) : ~dg.attempts[j].ok })

\* C14: the digest window includes its boundary: a summarized item whose
\* summarization-completed time is exactly now - 25 h is selected, and one
\* whose time is one second earlier is not.
C14_WindowBoundary ==
    WindowSelected =>
      \A i \in Known :
        episodes[i].summary_file_path # Null =>
          /\ (episodes[i].summarization_completed_at
                 = << clock - digest_window_hours * 3600 >> => i \in dg.selected)
          /\ (episodes[i].summarization_completed_at
                 = << clock - digest_window_hours * 3600 - 1 >> => i \notin dg.selected)

\* C14 witness: the query ran on a registry holding one item at the cutoff
\* and one item a second before it.
C14_Witness ==
    /\ WindowSelected
    /\ \E i, k \in Known :
         /\ episodes[i].summary_file_path # Null
         /\ episodes[k].summary_file_path # Null
         /\ episodes[i].summarization_completed_at = << clock - digest_window_hours * 3600 >>
         /\ episodes[k].summarization_completed_at = << clock - digest_window_hours * 3600 - 1 >>
         /\ i \in dg.selected

\* C15: the fan-out makes exactly one attempt per recipient of the list, in
\* list order, whichever of them fail: while the loop runs the attempts are
\* the recipients before the loop's position, and when the delivery has
\* returned they are the whole list.
C15_FanOutIsolation ==
    dg.subscribers # << >> =>
      LET addressed == [ j \in 1..Len(dg.attempts) |-> dg.attempts[j].to ]
      IN  /\ dg.pc = "sending" => addressed = SubSeq(dg.subscribers, 1, dg.idx - 1)
          /\ dg.pc = "done" => addressed = dg.subscribers

\* C15 witness: three recipients, the first transport failed and the other
\* two were still attempted.
C15_Witness ==
    /\ dg.pc = "done"
    /\ Len(dg.subscribers) = 3
    /\ Len(dg.attempts) = 3
    /\ ~dg.attempts[1].ok

\* C16: with a non-empty recipient list the fan-out reports success exactly
\* when at least one recipient's delivery succeeded, and every recipient is
\* counted as delivered or failed.
C16_SuccessIffDelivered ==
    (dg.pc = "done" /\ DeliverCalled /\ GetSubscriberList(cfg) # << >>) =>
      /\ (dg.ret = "True") <=> (Delivered > 0)
      /\ dg.subscribers # << >> => Delivered + Failed = Len(dg.subscribers)

\* C16 witness: three recipients, one failing transport, overall success.
C16_Witness ==
    /\ dg.pc = "done"
    /\ Len(dg.subscribers) = 3
    /\ Delivered = 2
    /\ Failed = 1
    /\ dg.ret = "True"

\* C17: the fan-out with zero recipients returns something other than what
\* it returns when every recipient's transport fails.
C17_NoRecipientsIsNotFailure ==
    ( /\ dg.pc = "done"
      /\ DeliverCalled
      /\ cfg.email_enabled
      /\ dg.selected # {}
      /\ GetSubscriberList(cfg) = << >> )
      => dg.ret # DeliveryVerdict(0)

\* C18: once a digest has been attempted the digest_logs table holds its
\* one row.
C18_OneLogRowPerAttempt ==
    (dg.pc = "done" /\ Len(dg.attempts) > 0) => Cardinality(digest_logs) = 1
\* C22: a stage invocation that finds no eligible item returns at once with
\* all counts zero, and leaves the ledger, the summaries and every item as
\* they were.
C22_EmptyInvocationIsNoOp ==
    [][ \A s \in Stages :
          (StartStage(s) /\ Eligible(s) = {}) =>
            /\ stage' = "idle"
            /\ result'.stage = s
            /\ result'.eligible = 0
            /\ result'.attempted = 0
            /\ result'.succeeded = 0
            /\ result'.failed = 0
            /\ jobs' = jobs
            /\ summaries' = summaries
            /\ episodes' = episodes ]_vars

\* C22 witness: a transcription invocation has returned without attempting
\* anything although the registry holds items.
C22_Witness ==
    /\ stage = "idle"
    /\ invNo > 0
    /\ result.stage = "transcription"
    /\ result.eligible = 0
    /\ result.attempted = 0
    /\ Known # {}
\* C24: the retry counter counts the failed attempts: an attempt that ends
\* in failure adds exactly one to the item's retry_count and an attempt that
\* succeeds leaves it unchanged, in every stage.
C24_RetryCountsFailures ==
    [][ \A i \in Known :
          (task[i] # "done" /\ task'[i] = "done") =>
            episodes'[i].retry_count =
              episodes[i].retry_count + (IF results'[i] THEN 0 ELSE 1) ]_vars
\* C25: an item whose attempt fails is attempted once only in that
\* invocation, and when the invocation returns with the item's artifact
\* still absent the item is in the stage's eligible set again.
C25_FailedItemStaysEligible ==
    [][ /\ \A i \in EpisodeIds : calls'[i] <= 1
        /\ ReturnStage =>
             \A i \in snapshot :
               (~results[i] /\ OwnArtifact(stage, episodes[i]) = Null)
                 => i \in { k \in DOMAIN episodes' :
                             CASE stage = "download" -> DownloadFilter(episodes'[k])
                               [] stage = "transcription" -> TranscriptionFilter(episodes'[k])
                               [] stage = "summarization" -> SummarizationFilter(episodes'[k]) }
      ]_vars

\* C25 witness: a download invocation has returned with a failed item, which
\* is eligible for download again.
C25_Witness ==
    /\ stage = "idle"
    /\ result.stage = "download"
    /\ result.failed = 1
    /\ \E i \in Eligible("download") : episodes[i].retry_count = 1
Finalized(j) == j.status \in {"completed", "failed"}

\* C27: once an invocation has returned every ledger row is completed or
\* failed, and no step changes or removes a row that is completed or failed.
C27_LedgerRowsFinalized ==
    [][ /\ stage' = "idle" => \A j \in jobs' : Finalized(j)
        /\ \A j \in jobs : Finalized(j) => j \in jobs' ]_vars

\* C27 witness: an item's failed row from an earlier invocation stands
\* beside its completed row from a later one.
C27_Witness ==
    /\ stage = "idle"
    /\ \E j, k \in jobs :
         /\ j.episode_id = k.episode_id
         /\ j.job_type = k.job_type
         /\ j.attempt < k.attempt
         /\ j.status = "failed"
         /\ k.status = "completed"
\* C23: when no summarized item lies in the window, send_daily_digest
\* returns True and no message is attempted to any recipient.
C23_EmptyWindowIsNoError ==
    ( /\ WindowSelected
      /\ \A i \in Known :
           \/ episodes[i].summary_file_path = Null
           \/ episodes[i].summarization_completed_at = NullTime
           \/ episodes[i].summarization_completed_at[1] < clock - digest_window_hours * 3600 )
      => /\ dg.pc = "done"
         /\ dg.ret = "True"
         /\ dg.attempts = << >>

\* C23 witness: mail is enabled with a subscriber, the registry holds a
\* summarized item, and the digest returned True without selecting anything.
C23_Witness ==
    /\ WindowSelected
    /\ cfg.email_enabled
    /\ GetSubscriberList(cfg) # << >>
    /\ \E i \in Known : episodes[i].summary_file_path # Null
    /\ dg.selected = {}
    /\ dg.ret = "True"
\* C26: an item's failure never stops the run: whatever has failed so far,
\* a waiting item of the batch can be started as soon as a slot is free, a
\* batch whose tasks are all done returns to the run, and the run then
\* invokes the stage at its next position.
C26_FailureNeverAbortsRun ==
    /\ \A i \in snapshot :
         (task[i] = "waiting" /\ Cardinality(InFlight) < Limit(stage)) =>
           ENABLED (DownloadBegin(i) \/ TranscribeBegin(i) \/ SummarizeBegin(i))
    /\ AllDone => ENABLED RunStageReturns
    /\ (pc \in Stages /\ stage = "idle" /\ invNo < MaxInvocations) => ENABLED RunStage

\* C26 witness: the download of one item failed, and the run went on to
\* transcribe and then summarize another item of the same batch.
C26_Witness ==
    /\ pc = "summarization"
    /\ stage = "summarization"
    /\ \E i \in Known : episodes[i].retry_count = 1 /\ episodes[i].audio_file_path = Null
    /\ \E i \in snapshot : task[i] = "done" /\ outcome[i] = "ok"
\* The run an invocation belongs to: a run makes three invocations.
RunOf(attempt) == (attempt - 1) \div 3

\* C28 as stated: within one run no item is attempted by more than one
\* stage, so the ledger never holds rows of two stages for one item from
\* the same run.
C28_OneStagePerItemPerRun ==
    \A j, k \in jobs :
      (j.episode_id = k.episode_id /\ RunOf(j.attempt) = RunOf(k.attempt))
        => j.job_type = k.job_type

\* C28 amended: in every state the three eligible sets are pairwise
\* disjoint, and a step changes an item's row only while that item's task of
\* the one stage in progress runs, leaving the other stages' artifacts as
\* they were; an item may still pass through successive stages of one run.
C28_OneStageAtATime ==
    [][ /\ \A s1, s2 \in Stages : s1 # s2 => Eligible(s1) \cap Eligible(s2) = {}
        /\ \A i \in Known :
             episodes'[i] # episodes[i] =>
               /\ stage \in Stages
               /\ i \in snapshot
               /\ task[i] = "running"
               /\ \A s \in Stages \ {stage} :
                    OwnArtifact(s, episodes'[i]) = OwnArtifact(s, episodes[i]) ]_vars

\* C28 witness: the summarization stage of a run works on an item that the
\* transcription stage of the same run transcribed.
C28_Witness ==
    /\ pc = "summarization"
    /\ stage = "summarization"
    /\ \E i \in snapshot :
         /\ task[i] = "running"
         /\ \E j \in jobs : /\ j.episode_id = i
                             /\ j.job_type = "transcription"
                             /\ j.status = "completed"
                             /\ j.attempt = invNo - 1
\* C30: batches are deterministic: on a given registry state a stage's
\* query has one possible result (the oldest eligible items, in order), so
\* two invocations on equal states select the same items.
C30_DeterministicBatches ==
    [][ \A s \in Stages :
          StartStage(s) => Cardinality(QueryResults(s)) = 1 ]_vars
\* C21: acquisition never stores a guid twice, and it leaves every stored
\* item as it was: a fetch only appends rows, all under distinct guids.
C21_NoDuplicateGuid ==
    [][ /\ \A i, k \in DOMAIN episodes' :
             i # k => episodes'[i].guid # episodes'[k].guid
        /\ \A i \in Known :
             i \in DOMAIN episodes' /\ episodes'[i] = episodes[i] ]_vars

\* C21 witness: a feed listed the guid of an item that is already fully
\* processed, and new entries of the same call were saved beside it.
C21_Witness ==
    /\ fetched.pc = "idle"
    /\ Len(episodes) >= 2
    /\ episodes[1].summary_file_path # Null
    /\ fetched.saved # << >>
    /\ episodes[1].guid \in fetched.skipped

\* C29: no claim or lock separates the eligibility read from the outcome
\* write. Whenever one run invokes a stage while the other run is inside the
\* same stage, the invocation selects every item of the other run's
\* unfinished batch again.
C29_NoClaimBetweenReadAndWrite ==
    [][ \A r \in Runs, o \in Runs :
          ( /\ r # o
            /\ sessions[r].pos \in Stages
            /\ sessions[r].stage = "idle"
            /\ sessions'[r] # sessions[r]
            /\ sessions[o].stage = sessions[r].pos )
          => /\ sessions'[r].stage = sessions[r].pos
             /\ sessions[o].snapshot \subseteq sessions'[r].snapshot ]_vars

\* C29 witness: both runs have selected the same item for summarization
\* and both are executing the stage for it.
C29_Witness ==
    \E i \in Known :
        \A r \in Runs :
            /\ sessions[r].stage = "summarization"
            /\ i \in sessions[r].snapshot
            /\ sessions[r].task[i] = "running"

\* C39: acquisition isolates feeds. When fetch_podcast_feeds returns, every
\* new episode gathered from a feed none of whose entries shares its guid
\* with another gathered entry is in the registry, whatever happened to the
\* other feeds (a raised request, or colliding entries).
C39_FeedsIsolated ==
    [][ (fetched.pc = "fetching" /\ fetched'.pc = "idle") =>
          LET new == fetched.new_episodes
              Clean(p) ==
                  \A j, k \in 1..Len(new) :
                      (new[j].podcast_id = p /\ k # j) => new[k].guid # new[j].guid
          IN  \A p \in Podcasts :
                Clean(p) =>
                  \A j \in 1..Len(new) :
                      new[j].podcast_id = p =>
                        \E i \in DOMAIN episodes' : episodes'[i].guid = new[j].guid
      ]_vars

\* C38: the recipient list _get_subscriber_list builds holds no address
\* twice and no empty address, whatever the configuration.
C38_RecipientsDistinctNonEmpty ==
    LET subs == GetSubscriberList(cfg)
    IN  /\ \A j, k \in 1..Len(subs) : j # k => subs[j] # subs[k]
        /\ \A j \in 1..Len(subs) : subs[j] # ""

\* The artifact references of a row.
Artifacts(e) == << e.audio_file_path, e.transcript_file_path, e.summary_file_path >>

\* C37: stage progress is monotone. No step removes an item, and an
\* artifact reference that is set keeps its value through every later step.
C37_ProgressMonotone ==
    [][ \A i \in Known :
          /\ i \in DOMAIN episodes'
          /\ \A c \in 1..3 :
               Artifacts(episodes[i])[c] # Null =>
                 Artifacts(episodes'[i])[c] = Artifacts(episodes[i])[c] ]_vars

\* C37 witness: an item whose audio and transcript were set by earlier
\* invocations has just been given its summary by a later one.
C37_Witness ==
    /\ stage = "summarization"
    /\ \E i \in snapshot :
         /\ task[i] = "done"
         /\ episodes[i].audio_file_path # Null
         /\ episodes[i].transcript_file_path # Null
         /\ episodes[i].summary_file_path # Null

\* C36: a ledger row is finalized as completed exactly when the attempt it
\* belongs to sets the item's artifact of that stage: the step that writes a
\* row's final status sets the artifact (from null) if the status is
\* completed and leaves it null if the status is failed.
C36_CompletedIffArtifactSet ==
    [][ \A j \in jobs' \ jobs :
          Finalized(j) =>
            LET i == j.episode_id
                before == OwnArtifact(j.job_type, episodes[i])
                after == OwnArtifact(j.job_type, episodes'[i])
            IN  /\ before = Null
                /\ (j.status = "completed") <=> (after # Null) ]_vars

\* C36 witness: one invocation has an attempt whose row is completed and
\* an attempt whose row is failed.
C36_Witness ==
    /\ stage \in {"transcription", "summarization"}
    /\ \E i, k \in snapshot :
         /\ \E j \in AttemptRows(i) : j.status = "completed"
         /\ \E j \in AttemptRows(k) : j.status = "failed"
         /\ OwnArtifact(stage, episodes[i]) # Null
         /\ OwnArtifact(stage, episodes[k]) = Null

\* C35: in every reachable registry state an item's downloaded flag is true
\* exactly when its audio reference is set, so the scripts' transcription
\* filter and the worker's transcription filter select the same items.
C35_DownloadedIffAudio ==
    \A i \in Known :
        /\ (episodes[i].downloaded = TRUE) <=> (episodes[i].audio_file_path # Null)
        /\ ScriptFilter(episodes[i]) <=> TranscriptionFilter(episodes[i])

\* C35 witness: a script has taken an item that its own filter and the
\* worker's filter both select, in a registry with more than one item.
C35_Witness ==
    /\ pc = "script"
    /\ stage = "transcription"
    /\ Len(episodes) >= 2
    /\ \E i \in snapshot :
         /\ task[i] = "waiting"
         /\ episodes[i].downloaded = TRUE
         /\ ScriptFilter(episodes[i]) /\ TranscriptionFilter(episodes[i])

\* A direct call was made in this step, on episode i for stage s.
DirectCall(i, s) ==
    /\ invNo' = invNo + 1
    /\ called'.episode = i
    /\ called'.type = s

TablesUnchanged ==
    /\ episodes' = episodes
    /\ jobs' = jobs
    /\ summaries' = summaries

\* C31 as stated: process_episode on an item whose artifact for the stage is
\* already recorded leaves the item and the ledger unchanged and returns True.
C31_PresentArtifactIsNoOp ==
    [][ \A i \in Known, s \in {"transcription", "summarization"} :
          (DirectCall(i, s) /\ PathOf(episodes[i], OutputOf(s)) # Null)
          => (TablesUnchanged /\ called'.ret = TRUE) ]_vars

\* C31 amended: process_episode on an item whose artifact for the stage is
\* recorded and on disk, and whose input file is on disk, changes nothing and
\* returns True; and a call that follows a call that returned True for the
\* same item and stage changes nothing and returns True.
C31_PresentOnDiskIsNoOp ==
    [][ \A i \in Known, s \in {"transcription", "summarization"} :
          /\ ( /\ DirectCall(i, s)
               /\ PathOf(episodes[i], OutputOf(s)) # Null
               /\ <<i, OutputOf(s)>> \in disk
               /\ <<i, InputOf(s)>> \in disk )
             => (TablesUnchanged /\ called'.ret = TRUE)
          /\ ( /\ DirectCall(i, s)
               /\ called = [episode |-> i, type |-> s, ret |-> TRUE] )
             => (TablesUnchanged /\ called'.ret = TRUE) ]_vars

\* C31 witness: the operation ran and succeeded, and was then called again
\* for the same item, returning True with the ledger as the first call left it.
C31_Witness ==
    /\ invNo >= 2
    /\ called.ret = TRUE
    /\ \E j \in jobs :
         /\ j.episode_id = called.episode
         /\ j.job_type = called.type
         /\ j.status = "completed"
         /\ j.attempt = invNo - 1
    /\ ~ \E j \in jobs : j.attempt = invNo

\* Episode i was summarized by the run in progress (the rows of the initial
\* ledger carry attempt 0).
SummarizedInRun(i) ==
    \E j \in jobs :
        /\ j.episode_id = i
        /\ j.job_type = "summarization"
        /\ j.status = "completed"
        /\ j.attempt > 0

\* C33: an item whose summarization succeeded during a run is selected by
\* the window query of the send_daily_digest call that ends the same run.
C33_SummarizedInRunIsSelected ==
    (pc \in {"digest", "done"} /\ dg.pc # "idle") =>
        \A i \in Known : SummarizedInRun(i) => i \in dg.selected

\* C34: when the scheduler's digest job has returned, the composer's window
\* selection was made and, where there was something to deliver and someone
\* to deliver it to, deliveries were attempted; and the job's value is the
\* composer's boolean.
C34_DigestJobRunsComposer ==
    (dg.pc = "done" /\ dg.entry = "PodcastAgent.send_daily_digest") =>
        /\ dg.ret \in {"True", "False"}
        /\ dg.selected = SelectForWindow(clock)
        /\ ( /\ dg.selected # {}
             /\ cfg.email_enabled
             /\ GetSubscriberList(cfg) # << >> ) => dg.attempts # << >>

\* C32: under repeated runs with executors that succeed whenever their
\* input file exists, every item whose audio is recorded and on disk is
\* eventually transcribed, whatever becomes of the other eligible items.
C32_ReadableAudioEventuallyTranscribed ==
    \A i \in EpisodeIds :
        ( /\ i \in Known
          /\ episodes[i].audio_file_path # Null
          /\ <<i, "audio">> \in disk )
        ~> ( i \in Known /\ episodes[i].transcript_file_path # Null )

====
